---- MODULE Spec2Model ----
(***************************************************************************)
(* ConfiguratorCore of the iTALC/Veyon configurator                        *)
(* (src/configurator/src/ConfiguratorCore.cpp): applyConfiguration,        *)
(* createKeyPair, importPublicKey, informationMessage, criticalMessage.    *)
(*                                                                         *)
(* Every public function of the namespace is one action.  An action runs   *)
(* the whole function; what the function called, logged and showed is      *)
(* kept in calls, log and boxes (of the last call only), and the state it  *)
(* started from in preFs and preConfig, so that a property of one call is  *)
(* a state predicate.  The outcomes of the collaborators the file only     *)
(* calls (DsaKey, QFile, SystemConfigurationModifier, LocalStore) are      *)
(* chosen nondeterministically.                                            *)
(***************************************************************************)
EXTENDS Naturals, Sequences, FiniteSets, TLC

VARIABLES
    fs,         \* the files: path -> file
    nextKey,    \* number of the next key the generator produces
    config,     \* *ItalcCore::config, the global configuration
    sysStore,   \* what LocalStore(System) holds
    silent,     \* ConfiguratorCore::silent
    guiApp,     \* QCoreApplication::instance() is a QApplication
    win32,      \* the build defines ITALC_BUILD_WIN32
    op,         \* the last call: its name and arguments
    result,     \* what the last call returned (TRUE for a void function)
    calls,      \* the collaborator calls the last call made, in order
    log,        \* the log entries the last call wrote, in order
    boxes,      \* the message boxes the last call showed, in order
    preFs,      \* fs when the last call started
    preConfig,  \* config when the last call started
    nOps        \* number of calls made so far

vars == <<fs, nextKey, config, sysStore, silent, guiApp, win32, op, result,
          calls, log, boxes, preFs, preConfig, nOps>>

\* Bound of the model: the number of calls in one run.
MaxOps == 2

----------------------------------------------------------------------------
(* Roles, scopes, paths, files                                             *)

Roles == {"RoleTeacher", "RoleAdmin"}

\* destDir: empty (the system-wide location) or an override directory
DestDirs == {"", "destdir"}

publicKeyPath(role, destDir) == <<"public", role, destDir>>

privateKeyPath(role, destDir) == <<"private", role, destDir>>

PubPaths == {publicKeyPath(r, d) : r \in Roles, d \in DestDirs}

PrivPaths == {privateKeyPath(r, d) : r \in Roles, d \in DestDirs}

\* files outside the key store that a caller may name as the import source
ExtPaths == {<<"ext", "keyA", "">>, <<"ext", "keyB", "">>, <<"ext", "junk", "">>}

Paths == PubPaths \cup PrivPaths \cup ExtPaths

\* what a caller may pass as pubKey: any path that may hold a public key
SourcePaths == ExtPaths \cup PubPaths

NoKey == [origin |-> "none", id |-> 0]

GeneratedKey(n) == [origin |-> "generated", id |-> n]

ExternalKey(n) == [origin |-> "external", id |-> n]

Absent == [exists |-> FALSE, kind |-> "none", key |-> NoKey, perms |-> "none"]

\* the file a successful DsaKey save leaves
KeyFile(kind, key) ==
    [exists |-> TRUE, kind |-> kind, key |-> key, perms |-> "saved"]

\* the file an interrupted write leaves
PartialFile == [exists |-> TRUE, kind |-> "junk", key |-> NoKey, perms |-> "saved"]

InitFs ==
    [p \in Paths |->
        IF p = <<"ext", "keyA", "">> THEN KeyFile("public", ExternalKey(1))
        ELSE IF p = <<"ext", "keyB", "">> THEN KeyFile("public", ExternalKey(2))
        ELSE IF p = <<"ext", "junk", "">> THEN PartialFile
        ELSE Absent]

----------------------------------------------------------------------------
(* DsaKey and QFile, as ConfiguratorCore uses them                         *)

\* PublicDSAKey( file ): the key read from the file, isValid() iff it parses
LoadPublic(f, path) ==
    IF f[path].exists /\ f[path].kind = "public"
    THEN [valid |-> TRUE, key |-> f[path].key]
    ELSE [valid |-> FALSE, key |-> NoKey]

SaveOutcomes == {"ok", "failUntouched", "failPartial"}

\* DsaKey::save( path ) with the given outcome
SaveFile(f, kind, key, path, outcome) ==
    IF outcome = "ok" THEN [f EXCEPT ![path] = KeyFile(kind, key)]
    ELSE IF outcome = "failPartial" THEN [f EXCEPT ![path] = PartialFile]
    ELSE f

\* QFile::setPermissions( QFile::WriteOwner )
SetPermissions(f, path, ok) ==
    IF ok THEN [f EXCEPT ![path].perms = "WriteOwner"] ELSE f

\* QFile::remove()
RemoveFile(f, path, ok) ==
    IF ok THEN [f EXCEPT ![path] = Absent] ELSE f

Call(fn, arg, ok) == [fn |-> fn, arg |-> arg, ok |-> ok]

LogEntry(via, level, text) == [via |-> via, level |-> level, text |-> text]

----------------------------------------------------------------------------
(* The message-reporting surface                                           *)

\* informationMessage( title, msg )
informationMessage(sil, gui, title, msg) ==
    [log   |-> <<LogEntry("informationMessage", "Info", msg)>>,
     boxes |-> IF gui /\ ~sil
               THEN <<[kind |-> "information", title |-> title, text |-> msg]>>
               ELSE <<>>]

\* a slip: the message box is shown whatever silent says
criticalMessageIgnoringSilent(sil, gui, title, msg) ==
    [log   |-> <<LogEntry("criticalMessage", "Critical", msg)>>,
     boxes |-> IF gui
               THEN <<[kind |-> "critical", title |-> title, text |-> msg]>>
               ELSE <<>>]

\* criticalMessage( title, msg )
criticalMessage(sil, gui, title, msg) ==
    [log   |-> <<LogEntry("criticalMessage", "Critical", msg)>>,
     boxes |-> IF gui /\ ~sil
               THEN <<[kind |-> "critical", title |-> title, text |-> msg]>>
               ELSE <<>>]

\* configApplyError( msg )
configApplyError(sil, gui, msg) == criticalMessage(sil, gui, "Configurator", msg)

----------------------------------------------------------------------------
(* importPublicKey                                                         *)

\* a slip: the existing destination is removed before the source is validated
importPublicKeyRemoveFirst(f, role, pubKey, destDir) ==
    LET dsaKey == LoadPublic(f, pubKey)
        pub == publicKeyPath(role, destDir)
        load == <<Call("PublicDSAKey", pubKey, dsaKey.valid)>>
        finish(g, done) ==
            IF ~dsaKey.valid
            THEN {[fs |-> g, result |-> FALSE, calls |-> done \o load,
                   log |-> <<LogEntry("qCritical", "Critical",
                                      "is not a valid public key file")>>]}
            ELSE {[fs     |-> SaveFile(g, "public", dsaKey.key, pub, s),
                   result |-> (s = "ok"),
                   calls  |-> done \o load \o <<Call("save", pub, s = "ok")>>,
                   log    |-> <<>>] : s \in SaveOutcomes}
    IN  IF f[pub].exists
        THEN finish(RemoveFile(SetPermissions(f, pub, TRUE), pub, TRUE),
                    <<Call("setPermissions", pub, TRUE), Call("remove", pub, TRUE)>>)
        ELSE finish(f, <<>>)

\* importPublicKey( role, pubKey, destDir ) from files f: every outcome the
\* collaborators allow, each with the files, the result, the calls and the log
importPublicKey(f, role, pubKey, destDir) ==
    LET dsaKey == LoadPublic(f, pubKey)
        pub == publicKeyPath(role, destDir)
        load == <<Call("PublicDSAKey", pubKey, dsaKey.valid)>>
        doSave(g, done) ==
            {[fs     |-> SaveFile(g, "public", dsaKey.key, pub, s),
              result |-> (s = "ok"),
              calls  |-> Append(done, Call("save", pub, s = "ok")),
              log    |-> <<>>] : s \in SaveOutcomes}
        doRemove(permOk, removeOk) ==
            LET f1 == SetPermissions(f, pub, permOk)
                f2 == RemoveFile(f1, pub, removeOk)
                done == load \o <<Call("setPermissions", pub, permOk),
                                  Call("remove", pub, removeOk)>>
            IN  IF ~removeOk
                THEN {[fs |-> f2, result |-> FALSE, calls |-> done,
                       log |-> <<LogEntry("qCritical", "Critical",
                                  "could not remove existing public key file")>>]}
                ELSE doSave(f2, done)
    IN  IF ~dsaKey.valid
        THEN {[fs |-> f, result |-> FALSE, calls |-> load,
               log |-> <<LogEntry("qCritical", "Critical",
                                  "is not a valid public key file")>>]}
        ELSE IF f[pub].exists
        THEN UNION {doRemove(permOk, removeOk) : permOk \in BOOLEAN, removeOk \in BOOLEAN}
        ELSE doSave(f, load)

\* a slip: the function returns true whatever the save returned
ImportPublicKeyReturningTrue(role, pubKey, destDir) ==
    /\ nOps < MaxOps
    /\ \E r \in importPublicKey(fs, role, pubKey, destDir) :
         /\ fs' = r.fs
         /\ result' = (r.result \/ r.calls[Len(r.calls)].fn = "save")
         /\ calls' = r.calls
         /\ log' = r.log
    /\ boxes' = <<>>
    /\ op' = [name |-> "importPublicKey", role |-> role, pubKey |-> pubKey,
              destDir |-> destDir]
    /\ preFs' = fs
    /\ preConfig' = config
    /\ nOps' = nOps + 1
    /\ UNCHANGED <<nextKey, config, sysStore, silent, guiApp, win32>>

ImportPublicKey(role, pubKey, destDir) ==
    /\ nOps < MaxOps
    /\ \E r \in importPublicKey(fs, role, pubKey, destDir) :
         /\ fs' = r.fs
         /\ result' = r.result
         /\ calls' = r.calls
         /\ log' = r.log
    /\ boxes' = <<>>
    /\ op' = [name |-> "importPublicKey", role |-> role, pubKey |-> pubKey,
              destDir |-> destDir]
    /\ preFs' = fs
    /\ preConfig' = config
    /\ nOps' = nOps + 1
    /\ UNCHANGED <<nextKey, config, sysStore, silent, guiApp, win32>>

----------------------------------------------------------------------------
(* createKeyPair                                                           *)

\* a slip: the result of saving the private key is not looked at
createKeyPairIgnoringPrivateSave(f, n, role, destDir) ==
    LET priv == privateKeyPath(role, destDir)
        pub == publicKeyPath(role, destDir)
        pkey == GeneratedKey(n)
        start == <<LogEntry("LogStream", "Default", "creating new key pair")>>
        failed(what) == Append(start, LogEntry("ilog_failed", "Warning", what))
        outcome(s1, s2) ==
            [fs      |-> SaveFile(SaveFile(f, "private", pkey, priv, s1),
                                  "public", pkey, pub, s2),
             nextKey |-> n + 1,
             result  |-> (s2 = "ok"),
             calls   |-> <<Call("PrivateDSAKey", priv, TRUE),
                           Call("save", priv, s1 = "ok"),
                           Call("save", pub, s2 = "ok")>>,
             log     |-> IF s2 = "ok"
                         THEN Append(start, LogEntry("printf", "stdout",
                                                     "...done, saved key-pair"))
                         ELSE failed("saving public key")]
    IN  {[fs |-> f, nextKey |-> n, result |-> FALSE,
          calls |-> <<Call("PrivateDSAKey", priv, FALSE)>>,
          log |-> failed("key generation")]}
        \cup {outcome(s1, s2) : s1 \in SaveOutcomes, s2 \in SaveOutcomes}

\* createKeyPair( role, destDir ) from files f, the generator's next key
\* being number n: every outcome the collaborators allow
createKeyPair(f, n, role, destDir) ==
    LET priv == privateKeyPath(role, destDir)
        pub == publicKeyPath(role, destDir)
        pkey == GeneratedKey(n)
        start == <<LogEntry("LogStream", "Default", "creating new key pair")>>
        failed(what) == Append(start, LogEntry("ilog_failed", "Warning", what))
        gen(valid) == <<Call("PrivateDSAKey", priv, valid)>>
        savePub(g, done) ==
            {[fs      |-> SaveFile(g, "public", pkey, pub, s),
              nextKey |-> n + 1,
              result  |-> (s = "ok"),
              calls   |-> Append(done, Call("save", pub, s = "ok")),
              log     |-> IF s = "ok"
                          THEN Append(start, LogEntry("printf", "stdout",
                                                      "...done, saved key-pair"))
                          ELSE failed("saving public key")] : s \in SaveOutcomes}
        savePriv(s) ==
            LET f1 == SaveFile(f, "private", pkey, priv, s)
                done == Append(gen(TRUE), Call("save", priv, s = "ok"))
            IN  IF s # "ok"
                THEN {[fs |-> f1, nextKey |-> n + 1, result |-> FALSE,
                       calls |-> done, log |-> failed("saving private key")]}
                ELSE savePub(f1, done)
    IN  {[fs |-> f, nextKey |-> n, result |-> FALSE, calls |-> gen(FALSE),
          log |-> failed("key generation")]}
        \cup UNION {savePriv(s) : s \in SaveOutcomes}

\* a slip: the paths are resolved without destDir
CreateKeyPairIgnoringDestDir(role, destDir) ==
    /\ nOps < MaxOps
    /\ \E r \in createKeyPair(fs, nextKey, role, "") :
         /\ fs' = r.fs
         /\ nextKey' = r.nextKey
         /\ result' = r.result
         /\ calls' = r.calls
         /\ log' = r.log
    /\ boxes' = <<>>
    /\ op' = [name |-> "createKeyPair", role |-> role, destDir |-> destDir]
    /\ preFs' = fs
    /\ preConfig' = config
    /\ nOps' = nOps + 1
    /\ UNCHANGED <<config, sysStore, silent, guiApp, win32>>

CreateKeyPair(role, destDir) ==
    /\ nOps < MaxOps
    /\ \E r \in createKeyPair(fs, nextKey, role, destDir) :
         /\ fs' = r.fs
         /\ nextKey' = r.nextKey
         /\ result' = r.result
         /\ calls' = r.calls
         /\ log' = r.log
    /\ boxes' = <<>>
    /\ op' = [name |-> "createKeyPair", role |-> role, destDir |-> destDir]
    /\ preFs' = fs
    /\ preConfig' = config
    /\ nOps' = nOps + 1
    /\ UNCHANGED <<config, sysStore, silent, guiApp, win32>>

----------------------------------------------------------------------------
(* applyConfiguration                                                      *)

Unset == "unset"

ServiceKeys == {"autostartService", "serviceArguments", "firewallException"}

ConfigKeys == ServiceKeys \cup {"LogonACL"}

ValuesOf(k) ==
    IF k = "autostartService" THEN {"true", "false"}
    ELSE IF k = "serviceArguments" THEN {"-session0", "-port"}
    ELSE IF k = "firewallException" THEN {"true", "false"}
    ELSE {"acl"}

EmptyConfig == [k \in ConfigKeys |-> Unset]

\* the configurations a caller passes: nothing set, or one key set
Configurations ==
    {EmptyConfig} \cup
    UNION {{[EmptyConfig EXCEPT ![k] = v] : v \in ValuesOf(k)} : k \in ConfigKeys}

\* Configuration::Object::operator+=: the keys c sets replace those of cfg
Merge(cfg, c) == [k \in ConfigKeys |-> IF c[k] # Unset THEN c[k] ELSE cfg[k]]

\* Configuration::Object::removeValue( key, parentKey )
RemoveValue(cfg, k) == [cfg EXCEPT ![k] = Unset]

NoReport == [log |-> <<>>, boxes |-> <<>>]

\* the body of applyConfiguration after the merge: the three modifications
\* read their values from `values`, the global configuration ends as `final`,
\* ok gives what the three modifications and the flush return
ApplyOutcome(values, final, store, isWin32, sil, gui, ok) ==
    LET autostartOk == ok[1]
        argumentsOk == ok[2]
        firewallOk == ok[3]
        flushOk == ok[4]
        r1 == IF autostartOk THEN NoReport
              ELSE configApplyError(sil, gui, "Could not modify the autostart property")
        r2 == IF argumentsOk THEN NoReport
              ELSE configApplyError(sil, gui, "Could not modify the service arguments")
        r3 == IF firewallOk THEN NoReport
              ELSE configApplyError(sil, gui, "Could not change the firewall configuration")
        acl == IF isWin32 THEN <<Call("setACL", <<>>, TRUE)>> ELSE <<>>
    IN  [config |-> final,
         store  |-> IF flushOk THEN final ELSE store,
         result |-> TRUE,
         calls  |-> <<Call("setServiceAutostart",
                           <<values["autostartService"]>>, autostartOk),
                      Call("setServiceArguments",
                           <<values["serviceArguments"]>>, argumentsOk),
                      Call("enableFirewallException",
                           <<values["firewallException"]>>, firewallOk)>>
                    \o acl \o <<Call("flush", <<>>, flushOk)>>,
         log    |-> r1.log \o r2.log \o r3.log,
         boxes  |-> r1.boxes \o r2.boxes \o r3.boxes]

\* a slip: the modifications are given the values of c, not of the merged
\* configuration
applyConfigurationUnmerged(cfg, store, c, isWin32, sil, gui) ==
    LET merged == Merge(cfg, c)
        final == IF isWin32 THEN RemoveValue(merged, "LogonACL") ELSE merged
    IN  {ApplyOutcome(c, final, store, isWin32, sil, gui, <<a, b, c3, fl>>) :
            a \in BOOLEAN, b \in BOOLEAN, c3 \in BOOLEAN, fl \in BOOLEAN}

\* applyConfiguration( c ) on the global configuration cfg and the system
\* store: every outcome the system modifications and the flush allow
applyConfiguration(cfg, store, c, isWin32, sil, gui) ==
    LET merged == Merge(cfg, c)
        final == IF isWin32 THEN RemoveValue(merged, "LogonACL") ELSE merged
    IN  {ApplyOutcome(merged, final, store, isWin32, sil, gui, <<a, b, c3, fl>>) :
            a \in BOOLEAN, b \in BOOLEAN, c3 \in BOOLEAN, fl \in BOOLEAN}

ApplyConfiguration(c) ==
    /\ nOps < MaxOps
    /\ \E r \in applyConfiguration(config, sysStore, c, win32, silent, guiApp) :
         /\ config' = r.config
         /\ sysStore' = r.store
         /\ result' = r.result
         /\ calls' = r.calls
         /\ log' = r.log
         /\ boxes' = r.boxes
    /\ op' = [name |-> "applyConfiguration", c |-> c]
    /\ preFs' = fs
    /\ preConfig' = config
    /\ nOps' = nOps + 1
    /\ UNCHANGED <<fs, nextKey, silent, guiApp, win32>>

----------------------------------------------------------------------------
(* informationMessage, criticalMessage, silent                             *)

Titles == {"Configurator", "Key import"}

Texts == {"done", "failed"}

InformationMessage(title, msg) ==
    /\ nOps < MaxOps
    /\ LET r == informationMessage(silent, guiApp, title, msg)
       IN  /\ log' = r.log
           /\ boxes' = r.boxes
    /\ result' = TRUE
    /\ calls' = <<>>
    /\ op' = [name |-> "informationMessage", title |-> title, msg |-> msg]
    /\ preFs' = fs
    /\ preConfig' = config
    /\ nOps' = nOps + 1
    /\ UNCHANGED <<fs, nextKey, config, sysStore, silent, guiApp, win32>>

CriticalMessage(title, msg) ==
    /\ nOps < MaxOps
    /\ LET r == criticalMessage(silent, guiApp, title, msg)
       IN  /\ log' = r.log
           /\ boxes' = r.boxes
    /\ result' = TRUE
    /\ calls' = <<>>
    /\ op' = [name |-> "criticalMessage", title |-> title, msg |-> msg]
    /\ preFs' = fs
    /\ preConfig' = config
    /\ nOps' = nOps + 1
    /\ UNCHANGED <<fs, nextKey, config, sysStore, silent, guiApp, win32>>

\* the process sets ConfiguratorCore::silent between two calls
SetSilent(b) ==
    /\ silent # b
    /\ silent' = b
    /\ op' = [name |-> "silent"]
    /\ result' = TRUE
    /\ calls' = <<>>
    /\ log' = <<>>
    /\ boxes' = <<>>
    /\ preFs' = fs
    /\ preConfig' = config
    /\ UNCHANGED <<fs, nextKey, config, sysStore, guiApp, win32, nOps>>

----------------------------------------------------------------------------
(* Specifications                                                          *)

Init ==
    /\ fs = InitFs
    /\ nextKey = 1
    /\ config = EmptyConfig
    /\ sysStore = EmptyConfig
    /\ silent = FALSE
    /\ guiApp \in BOOLEAN
    /\ win32 \in BOOLEAN
    /\ op = [name |-> "none"]
    /\ result = TRUE
    /\ calls = <<>>
    /\ log = <<>>
    /\ boxes = <<>>
    /\ preFs = InitFs
    /\ preConfig = EmptyConfig
    /\ nOps = 0

NextKeys ==
    \/ \E role \in Roles, pubKey \in SourcePaths, destDir \in DestDirs :
          ImportPublicKey(role, pubKey, destDir)
    \/ \E role \in Roles, destDir \in DestDirs : CreateKeyPair(role, destDir)

NextCreate ==
    \E role \in Roles, destDir \in DestDirs : CreateKeyPair(role, destDir)

NextSystem ==
    \/ \E c \in Configurations : ApplyConfiguration(c)
    \/ \E title \in Titles, msg \in Texts : InformationMessage(title, msg)
    \/ \E title \in Titles, msg \in Texts : CriticalMessage(title, msg)
    \/ \E b \in BOOLEAN : SetSilent(b)

Next == NextKeys \/ NextSystem

\* the key operations
SpecKeys == Init /\ [][NextKeys]_vars

\* createKeyPair alone
SpecCreate == Init /\ [][NextCreate]_vars

\* applyConfiguration and the message-reporting surface, with silent
\* changing between the calls
SpecSystem == Init /\ [][NextSystem]_vars

\* every operation
Spec == Init /\ [][Next]_vars

----------------------------------------------------------------------------
(* Properties.  Each is about the last call: op names it, preFs and        *)
(* preConfig are the state it started from.                                *)

IsImport == op.name = "importPublicKey"

IsCreate == op.name = "createKeyPair"

IsApply == op.name = "applyConfiguration"

\* the destination paths of the last key operation
DestPub == publicKeyPath(op.role, op.destDir)

DestPriv == privateKeyPath(op.role, op.destDir)

\* the positions of the calls of fn in the last call
CallsOf(fn) == {i \in 1..Len(calls) : calls[i].fn = fn}

FsMutations == {"setPermissions", "remove", "save"}

\* C1: importPublicKey with a source that is not a valid public key returns
\* failure and takes no filesystem action: no setPermissions, remove or save
\* is called and every file, the destination included, is as it was.
C1_ValidateBeforeMutate ==
    (IsImport /\ ~LoadPublic(preFs, op.pubKey).valid) =>
        /\ result = FALSE
        /\ \A i \in 1..Len(calls) : calls[i].fn \notin FsMutations
        /\ fs = preFs

\* C1's case: an invalid source, a valid key already installed at the destination
C1_Witness ==
    /\ IsImport
    /\ ~LoadPublic(preFs, op.pubKey).valid
    /\ LoadPublic(preFs, DestPub).valid
    /\ result = FALSE

\* C2: a (role, scope) that holds a valid public key when importPublicKey is
\* called holds a valid public key when the call has returned, whatever the
\* result.
C2_AtomicReplacement ==
    (IsImport /\ LoadPublic(preFs, DestPub).valid) => LoadPublic(fs, DestPub).valid

\* C3: when importPublicKey returns success the destination holds a public
\* key file whose key is the one the source file held, whatever was installed
\* before.
C3_SuccessInstallsSourceKey ==
    (IsImport /\ result) =>
        /\ LoadPublic(preFs, op.pubKey).valid
        /\ fs[DestPub].exists
        /\ fs[DestPub].kind = "public"
        /\ fs[DestPub].key = preFs[op.pubKey].key

\* C3's case: a successful import over a different installed key
C3_Witness ==
    /\ IsImport
    /\ result
    /\ LoadPublic(preFs, DestPub).valid
    /\ preFs[DestPub].key # preFs[op.pubKey].key
    /\ fs[DestPub].key = preFs[op.pubKey].key

\* a key that no file of f holds
Fresh(f, k) == \A p \in Paths : f[p].key # k

\* C4: createKeyPair runs key generation, the save of the private key and
\* the save of the public key in that order and stops at the first that
\* fails; it returns true iff all three succeeded; nothing is written after a
\* failed generation, the public key file is not written after a failed save
\* of the private key; after true both files hold the freshly generated pair.
C4_CreateStopsAtFirstFailure ==
    IsCreate =>
        LET n == Len(calls)
            steps == <<Call("PrivateDSAKey", DestPriv, TRUE),
                       Call("save", DestPriv, TRUE),
                       Call("save", DestPub, TRUE)>>
        IN  /\ n \in 1..3
            /\ \A i \in 1..n : calls[i].fn = steps[i].fn /\ calls[i].arg = steps[i].arg
            /\ \A i \in 1..(n - 1) : calls[i].ok
            /\ result = (n = 3 /\ calls[n].ok)
            /\ (n = 1 => fs = preFs)
            /\ (n = 2 => fs[DestPub] = preFs[DestPub])
            /\ result =>
                 /\ fs[DestPriv].exists /\ fs[DestPriv].kind = "private"
                 /\ fs[DestPub].exists /\ fs[DestPub].kind = "public"
                 /\ fs[DestPub].key = fs[DestPriv].key
                 /\ Fresh(preFs, fs[DestPriv].key)

\* C4's case: the save of the private key fails where a pair is installed
C4_Witness ==
    /\ IsCreate
    /\ Len(calls) = 2
    /\ ~calls[2].ok
    /\ preFs[DestPub].exists
    /\ result = FALSE

\* the steps whose failure is to be reported
ReportedSteps ==
    {"setServiceAutostart", "setServiceArguments", "enableFirewallException",
     "PrivateDSAKey", "PublicDSAKey", "save", "remove"}

FailedSteps == {i \in 1..Len(calls) : calls[i].fn \in ReportedSteps /\ ~calls[i].ok}

\* the log entries written through the message-reporting surface
Reports == {i \in 1..Len(log) : log[i].via \in {"criticalMessage", "informationMessage"}}

\* C5: in applyConfiguration, createKeyPair and importPublicKey every failed
\* step is reported once through criticalMessage/informationMessage, and a
\* call in which a step failed returns failure.
C5_FailuresReportedAndReturned ==
    (IsApply \/ IsCreate \/ IsImport) =>
        /\ Cardinality(Reports) = Cardinality(FailedSteps)
        /\ (FailedSteps # {} => result = FALSE)

IsMessage == op.name \in {"informationMessage", "criticalMessage"}

\* C6: informationMessage and criticalMessage write exactly one log entry, of
\* level Info and Critical, and show a message box iff the application is a
\* GUI application and silent is false; the same holds of every
\* criticalMessage applyConfiguration makes.
C6_LogOnceBoxIffGuiAndNotSilent ==
    /\ IsMessage =>
         /\ Len(log) = 1
         /\ log[1].level = (IF op.name = "informationMessage" THEN "Info" ELSE "Critical")
         /\ log[1].text = op.msg
         /\ Len(boxes) = (IF guiApp /\ ~silent THEN 1 ELSE 0)
         /\ \A i \in 1..Len(boxes) :
              /\ boxes[i].kind = (IF op.name = "informationMessage"
                                  THEN "information" ELSE "critical")
              /\ boxes[i].text = op.msg
    /\ IsApply =>
         /\ \A i \in 1..Len(log) : log[i].level = "Critical"
         /\ Len(boxes) = (IF guiApp /\ ~silent THEN Len(log) ELSE 0)

\* C6's case: criticalMessage in a GUI application with silent set
C6_Witness ==
    /\ op.name = "criticalMessage"
    /\ guiApp
    /\ silent
    /\ Len(log) = 1
    /\ boxes = <<>>

\* C7: applyConfiguration merges c into the global configuration first, then
\* calls setServiceAutostart, setServiceArguments and enableFirewallException
\* once each, in that order, with the merged values, whatever each returns;
\* flush is called once, last; the result is true.
C7_ApplyOrder ==
    IsApply =>
        LET merged == [k \in ConfigKeys |->
                          IF op.c[k] # Unset THEN op.c[k] ELSE preConfig[k]]
        IN  /\ \A k \in ServiceKeys : config[k] = merged[k]
            /\ Len(calls) >= 4
            /\ calls[1].fn = "setServiceAutostart"
            /\ calls[1].arg = <<merged["autostartService"]>>
            /\ calls[2].fn = "setServiceArguments"
            /\ calls[2].arg = <<merged["serviceArguments"]>>
            /\ calls[3].fn = "enableFirewallException"
            /\ calls[3].arg = <<merged["firewallException"]>>
            /\ \A fn \in {"setServiceAutostart", "setServiceArguments",
                          "enableFirewallException", "flush"} :
                  Cardinality(CallsOf(fn)) = 1
            /\ calls[Len(calls)].fn = "flush"
            /\ (calls[Len(calls)].ok => sysStore = config)
            /\ result = TRUE

\* C7's case: the first and the third modification fail, a value comes from
\* the configuration merged earlier and another from c
C7_Witness ==
    /\ IsApply
    /\ ~calls[1].ok /\ calls[2].ok /\ ~calls[3].ok
    /\ preConfig["autostartService"] # Unset
    /\ op.c["autostartService"] = Unset
    /\ op.c["firewallException"] # Unset
    /\ result = TRUE

\* C8: when the removal of an existing destination file fails, importPublicKey
\* returns failure, does not write the new key, and the destination file has
\* the content and the permissions it had before.
C8_FailedRemovalLeavesFile ==
    (IsImport /\ \E i \in CallsOf("remove") : ~calls[i].ok) =>
        /\ result = FALSE
        /\ CallsOf("save") = {}
        /\ fs[DestPub] = preFs[DestPub]

\* the files the last key operation may change
Touched ==
    IF IsImport THEN {DestPub}
    ELSE IF IsCreate THEN {DestPriv, DestPub}
    ELSE {}

C10_PairConsistent ==
    \A r \in Roles, d \in DestDirs :
        (/\ fs[privateKeyPath(r, d)].kind = "private"
         /\ fs[publicKeyPath(r, d)].kind = "public")
        => fs[publicKeyPath(r, d)].key = fs[privateKeyPath(r, d)].key

====
